---- MODULE Spec2Model ----
(***************************************************************************)
(* One relay session of the chat backend: the SSE generator of             *)
(* src/app/main.py (chat_stream.generate_chat_stream) driving the          *)
(* synchronous decoder generator of src/app/bedrock_client.py              *)
(* (stream_chat).  A step of the model is the code that runs between two   *)
(* points where the session interacts with its environment: a blocking     *)
(* read of the upstream stream, an await, or a yield to the HTTP layer.    *)
(***************************************************************************)
EXTENDS Integers, Sequences, FiniteSets, TLC

\* ------------------------------------------------------------------ bounds

\* Longest upstream frame sequence that is explored.
MaxFrames == 3

\* How many of the waits of one session may take time.
MaxSlow == 2

\* Seconds that may pass while the session blocks on the upstream service:
\* nothing, just over the heartbeat interval, and a whole day.
Gaps == {0, 31, 86400}

\* Seconds that may pass while the stream is opened, and while the client
\* takes a token.
ShortGaps == {0, 31}

\* ------------------------------------------------------- upstream frames

\* A raw event of the provider stream, by the path it takes through the
\* decoder loop: no 'chunk' key, bytes that are not JSON, or parsed JSON with
\* a 'type' (and, for content_block_delta, the delta's type and text).
Frame(kind, text) == [kind |-> kind, text |-> text]

DeltaA == Frame("text_delta", "a")
DeltaB == Frame("text_delta", "b")
DeltaEmpty == Frame("text_delta", "")
DeltaOther == Frame("other_delta", "")
MessageStop == Frame("message_stop", "")
ErrorFrame == Frame("error", "boom")
Unparseable == Frame("unparseable", "")
NoChunk == Frame("nochunk", "")
OtherType == Frame("other", "")

\* The frames the base specification draws the upstream stream from.
FrameSet == {DeltaA, DeltaB, MessageStop, ErrorFrame, Unparseable}

\* A content delta and the frames that carry no text to relay.
QuietFrameSet == {DeltaA, DeltaEmpty, DeltaOther, NoChunk, OtherType}

SeqsUpTo(S, n) == UNION {[1..k -> S] : k \in 0..n}

\* ------------------------------------------------------------ exceptions

Exc(cls, msg) == [cls |-> cls, msg |-> msg]

\* C21 mutant: a message_stop frame is passed over like an unknown type.
MutProcessChunkStopContinues(f) ==
    CASE f.kind = "unparseable" ->
            [act |-> "raise", exc |-> Exc("JSONDecodeError", "bad json"), text |-> ""]
      [] f.kind = "text_delta" /\ f.text # "" ->
            [act |-> "yield", exc |-> Exc("", ""), text |-> f.text]
      [] f.kind = "error" ->
            [act |-> "raise",
             exc |-> Exc("BedrockStreamingError", "Bedrock error: " \o f.text),
             text |-> ""]
      [] OTHER ->
            [act |-> "continue", exc |-> Exc("", ""), text |-> ""]

\* What the body of the inner try does with one parsed-or-not chunk
\* (bedrock_client.py 189-209): yield a text, break, raise, or fall through.
ProcessChunk(f) ==
    CASE f.kind = "unparseable" ->
            [act |-> "raise", exc |-> Exc("JSONDecodeError", "bad json"), text |-> ""]
      [] f.kind = "text_delta" /\ f.text # "" ->
            [act |-> "yield", exc |-> Exc("", ""), text |-> f.text]
      [] f.kind = "message_stop" ->
            [act |-> "break", exc |-> Exc("", ""), text |-> ""]
      [] f.kind = "error" ->
            [act |-> "raise",
             exc |-> Exc("BedrockStreamingError", "Bedrock error: " \o f.text),
             text |-> ""]
      [] OTHER ->
            [act |-> "continue", exc |-> Exc("", ""), text |-> ""]

\* C9 mutant: a frame that is not JSON ends the decoding.
MutInnerExceptAborts(r) ==
    IF r.act = "raise"
    THEN IF r.exc.cls = "JSONDecodeError"
         THEN [act |-> "break", exc |-> Exc("", ""), text |-> ""]
         ELSE [act |-> "continue", exc |-> Exc("", ""), text |-> ""]
    ELSE r

\* The two except clauses of the inner try (bedrock_client.py 211-216):
\* json.JSONDecodeError -> continue, and any other Exception -> continue.
\* BedrockStreamingError is an Exception, so the raise of line 209 ends here.
InnerExcept(r) ==
    IF r.act = "raise"
    THEN IF r.exc.cls = "JSONDecodeError"
         THEN [act |-> "continue", exc |-> Exc("", ""), text |-> ""]
         ELSE [act |-> "continue", exc |-> Exc("", ""), text |-> ""]
    ELSE r

\* C1 mutant: the decoder reads on after a message_stop frame.
MutDecodeEventIgnoresStop(f) ==
    IF f.kind = "nochunk" \/ f.kind = "message_stop"
    THEN [act |-> "continue", exc |-> Exc("", ""), text |-> ""]
    ELSE InnerExcept(ProcessChunk(f))

\* C26 mutant: an event without a chunk ends the decoding.
MutDecodeEventNoChunkBreaks(f) ==
    IF f.kind = "nochunk"
    THEN [act |-> "break", exc |-> Exc("", ""), text |-> ""]
    ELSE InnerExcept(ProcessChunk(f))

\* One iteration of `for event in stream` (bedrock_client.py 184-216).
DecodeEvent(f) ==
    IF f.kind = "nochunk"
    THEN [act |-> "continue", exc |-> Exc("", ""), text |-> ""]
    ELSE InnerExcept(ProcessChunk(f))

\* len(text.split()): the texts of the model are single words.
WordCount(text) == IF text = "" THEN 0 ELSE 1

\* The outer except clauses of stream_chat (bedrock_client.py 218-241): what
\* leaves stream_chat when `e` is raised inside its try block.
OuterExcept(e) ==
    CASE e.cls = "BedrockClientError" -> e
      [] e.cls = "ClientError" ->
            IF e.msg = "AccessDeniedException"
            THEN Exc("BedrockStreamingError", "Access denied to Bedrock model.")
            ELSE IF e.msg = "ValidationException"
            THEN Exc("BedrockStreamingError", "Invalid request parameters: " \o e.msg)
            ELSE IF e.msg = "ThrottlingException"
            THEN Exc("BedrockStreamingError", "Request rate limit exceeded.")
            ELSE Exc("BedrockStreamingError", "Bedrock API error: " \o e.msg)
      [] e.cls = "BotoCoreError" ->
            Exc("BedrockStreamingError", "AWS SDK error: " \o e.msg)
      [] OTHER ->
            Exc("BedrockStreamingError", "Unexpected streaming error: " \o e.msg)

\* _get_bedrock_client (bedrock_client.py 27-72): every failure of the
\* session or client construction becomes a BedrockClientError.
GetBedrockClientError(cause) ==
    CASE cause = "NoCredentialsError" ->
            Exc("BedrockClientError", "AWS credentials not found.")
      [] cause = "ClientError" ->
            Exc("BedrockClientError", "Failed to create Bedrock client")
      [] OTHER ->
            Exc("BedrockClientError", "Unexpected error creating Bedrock client")

\* What can go wrong before the first frame is read.
ClientCauses == {"NoCredentialsError", "ClientError", "Exception"}
InvokeFaults ==
    {Exc("ClientError", c) : c \in {"AccessDeniedException", "ValidationException",
                                     "ThrottlingException", "ServiceUnavailable"}}
    \cup {Exc("BotoCoreError", "endpoint"), Exc("Exception", "other")}
\* The body of the response is missing: raised inside the try (line 180).
NoStreamError == Exc("BedrockStreamingError", "No response stream received from Bedrock")
\* What the iteration of the event stream can raise between two frames.
StreamFaults == {Exc("ClientError", "ThrottlingException"), Exc("Exception", "other")}

\* --------------------------------------------------------- outbound events

SSETokenEvent(text) == [type |-> "token", text |-> text]
SSEDoneEvent == [type |-> "done"]
SSEErrorEvent(message, code) == [type |-> "error", message |-> message, code |-> code]
SSEHeartbeatEvent(timestamp) == [type |-> "heartbeat", timestamp |-> timestamp]

\* format_sse_event: the frame "data: <json>\n\n" around the event's dict.
format_sse_event(event_data) == <<"data: ", event_data, "\n\n">>
\* The event a frame carries.
EventOf(sse) == sse[2]

\* C7 mutant: the handler chain has no clause for asyncio.CancelledError,
\* which then ends in the clause for every other exception.
MutHandleExceptionNoCancelClause(e) ==
    CASE e.cls = "BedrockClientError" ->
            <<format_sse_event(SSEErrorEvent(
                "Failed to connect to AI service. Please check your AWS configuration.",
                "BEDROCK_CLIENT_ERROR"))>>
      [] e.cls = "BedrockStreamingError" ->
            <<format_sse_event(SSEErrorEvent("AI service error: " \o e.msg,
                                             "BEDROCK_STREAMING_ERROR"))>>
      [] e.cls = "ValidationError" ->
            <<format_sse_event(SSEErrorEvent(
                "Invalid request format. Please check your message format.",
                "VALIDATION_ERROR"))>>
      [] OTHER ->
            <<format_sse_event(SSEErrorEvent(
                "An unexpected error occurred. Please try again.", "INTERNAL_ERROR"))>>

\* C16 mutant: the message of a client error carries the text of the exception.
MutHandleExceptionLeaksDetail(e) ==
    CASE e.cls = "BedrockClientError" ->
            <<format_sse_event(SSEErrorEvent(
                "Failed to connect to AI service: " \o e.msg,
                "BEDROCK_CLIENT_ERROR"))>>
      [] e.cls = "BedrockStreamingError" ->
            <<format_sse_event(SSEErrorEvent("AI service error: " \o e.msg,
                                             "BEDROCK_STREAMING_ERROR"))>>
      [] e.cls = "ValidationError" ->
            <<format_sse_event(SSEErrorEvent(
                "Invalid request format. Please check your message format.",
                "VALIDATION_ERROR"))>>
      [] e.cls = "CancelledError" -> <<>>
      [] OTHER ->
            <<format_sse_event(SSEErrorEvent(
                "An unexpected error occurred. Please try again.", "INTERNAL_ERROR"))>>

\* The except clauses of generate_chat_stream (main.py 178-212): the frames
\* the generator yields when `e` is raised inside its try block.
HandleException(e) ==
    CASE e.cls = "BedrockClientError" ->
            <<format_sse_event(SSEErrorEvent(
                "Failed to connect to AI service. Please check your AWS configuration.",
                "BEDROCK_CLIENT_ERROR"))>>
      [] e.cls = "BedrockStreamingError" ->
            <<format_sse_event(SSEErrorEvent("AI service error: " \o e.msg,
                                             "BEDROCK_STREAMING_ERROR"))>>
      [] e.cls = "ValidationError" ->
            <<format_sse_event(SSEErrorEvent(
                "Invalid request format. Please check your message format.",
                "VALIDATION_ERROR"))>>
      [] e.cls = "CancelledError" -> <<>>
      [] OTHER ->
            <<format_sse_event(SSEErrorEvent(
                "An unexpected error occurred. Please try again.", "INTERNAL_ERROR"))>>

\* ------------------------------------------------------------- heartbeat

heartbeat_interval == 30

\* timedelta.seconds of a non-negative difference of d seconds: the seconds
\* within the day, the whole days being held in timedelta.days.
TimedeltaSeconds(d) == d % 86400

\* C11 mutant: the comparison is the wrong way round.
MutHeartbeatDueInverted(current, last) ==
    TimedeltaSeconds(current - last) < heartbeat_interval

\* C10 mutant: the interval is taken to be in minutes.
MutHeartbeatDueMinutes(current, last) ==
    TimedeltaSeconds(current - last) >= heartbeat_interval * 60

\* (current_time - last_heartbeat).seconds >= heartbeat_interval (main.py 164).
HeartbeatDue(current, last) ==
    TimedeltaSeconds(current - last) >= heartbeat_interval

\* ------------------------------------------------------ adapter: request

\* Longest message list handed to the adapter that is explored.
MaxMsgs == 2

\* A text, by what the code can tell of it: `ws` characters of leading and
\* trailing whitespace around a core of `core` characters that starts and
\* ends with a character that is not whitespace.
Text(ws, core) == [ws |-> ws, core |-> core]
StrLen(t) == t.ws + t.core
\* str.strip()
Strip(t) == Text(0, t.core)
\* str(content) of a content that is a str already.
Str(t) == Text(t.ws, t.core)

Min(a, b) == IF a <= b THEN a ELSE b
Max(a, b) == IF a >= b THEN a ELSE b

HasRoleAndContent(message) ==
    "role" \in DOMAIN message /\ "content" \in DOMAIN message

\* C20 mutant: a role that is not known is kept as it is.
MutFormatMessageKeepsRole(message) ==
    [role |-> message.role, content |-> Str(message.content)]

\* The body of the loop of _format_messages_for_anthropic for a message that
\* has both keys (bedrock_client.py 92-102).
FormatMessage(message) ==
    [role |-> IF message.role \in {"user", "assistant", "system"}
              THEN message.role ELSE "user",
     content |-> Str(message.content)]

\* _format_messages_for_anthropic (bedrock_client.py 74-105).
format_messages_for_anthropic(messages) ==
    LET kept == SelectSeq(messages, HasRoleAndContent) IN
        [i \in 1..Len(kept) |-> FormatMessage(kept[i])]

\* json.dumps: the text that stands for the value.
json_dumps(value) == <<"json", value>>
\* json.loads of a text json.dumps wrote.
json_loads(text) == text[2]

\* C13 mutant: max_tokens is capped but not raised to 1.
MutPayloadNoLowerBound(messages, temperature, max_tokens) ==
    json_dumps([anthropic_version |-> "bedrock-2023-05-31",
                max_tokens |-> Min(max_tokens, 4096),
                temperature |-> Max(0, Min(10, temperature)),
                messages |-> messages])

\* _create_bedrock_payload (bedrock_client.py 107-131); the temperature is
\* held in tenths, so 0.0 is 0 and 1.0 is 10.
create_bedrock_payload(messages, temperature, max_tokens) ==
    json_dumps([anthropic_version |-> "bedrock-2023-05-31",
                max_tokens |-> Max(1, Min(max_tokens, 4096)),
                temperature |-> Max(0, Min(10, temperature)),
                messages |-> messages])

\* The arguments of stream_chat.
Args(messages, temperature, max_tokens) ==
    [messages |-> messages, temperature |-> temperature, max_tokens |-> max_tokens]

\* What a caller may hand to stream_chat: dicts with and without their keys,
\* known and unknown roles, parameters inside and outside their ranges.
Dicts ==
    {[role |-> "user", content |-> Text(0, 5)],
     [role |-> "system", content |-> Text(1, 3)],
     [role |-> "tool", content |-> Text(0, 2)],
     [role |-> "assistant"],
     [content |-> Text(0, 4)]}
Temperatures == {-5, 2, 17}
TokenLimits == {0, 500, 10000}
AdapterInputs ==
    {Args(m, t, k) : m \in SeqsUpTo(Dicts, MaxMsgs), t \in Temperatures,
                     k \in TokenLimits}

\* No payload has been built.
NoPayload == <<>>

\* ---------------------------------------------------- request validation

\* The body of a POST /chat, as far as ChatRequest reads it (schemas.py 29-33).
Req(messages, temperature, max_tokens) ==
    [messages |-> messages, temperature |-> temperature, max_tokens |-> max_tokens]

\* MessageRole (schemas.py 8-12).
MessageRole == {"system", "user", "assistant"}

\* C12 mutant: the content is not held to its greatest length.
MutValidMessageNoMaxLength(m) ==
    /\ m.role \in MessageRole
    /\ StrLen(m.content) >= 1
    /\ Strip(m.content).core > 0

\* Message accepts m (schemas.py 14-27): the role is one of the enum, the
\* content is 1 to 32000 characters long as it was sent, and is not empty
\* once stripped.
ValidMessage(m) ==
    /\ m.role \in MessageRole
    /\ StrLen(m.content) >= 1
    /\ StrLen(m.content) <= 32000
    /\ Strip(m.content).core > 0

\* C27 mutant: the validator returns the content as it was sent.
MutParseMessageKeepsWhitespace(m) == [role |-> m.role, content |-> m.content]

\* The Message that validation yields: the validator returns v.strip()
\* (schemas.py 27).
ParseMessage(m) == [role |-> m.role, content |-> Strip(m.content)]

\* C17 mutant: a list of 50 messages is refused.
MutValidChatRequestCapExclusive(r) ==
    /\ Len(r.messages) >= 1
    /\ Len(r.messages) < 50
    /\ \A i \in 1..Len(r.messages) : ValidMessage(r.messages[i])
    /\ r.temperature >= 0 /\ r.temperature <= 10
    /\ r.max_tokens >= 1 /\ r.max_tokens <= 4096
    /\ \E i \in 1..Len(r.messages) : r.messages[i].role = "user"

\* ChatRequest accepts r (schemas.py 29-46): 1 to 50 messages, each one
\* accepted, the temperature in [0, 1] (tenths), max_tokens in [1, 4096], and
\* at least one message of role user.
ValidChatRequest(r) ==
    /\ Len(r.messages) >= 1
    /\ Len(r.messages) <= 50
    /\ \A i \in 1..Len(r.messages) : ValidMessage(r.messages[i])
    /\ r.temperature >= 0 /\ r.temperature <= 10
    /\ r.max_tokens >= 1 /\ r.max_tokens <= 4096
    /\ \E i \in 1..Len(r.messages) : r.messages[i].role = "user"

\* The arguments chat_stream hands to stream_chat for an accepted request
\* (main.py 136-150).
ArgsOf(r) ==
    Args([i \in 1..Len(r.messages) |-> ParseMessage(r.messages[i])],
         r.temperature, r.max_tokens)

\* The request of the base specification.
DefaultRequest == Req(<<[role |-> "user", content |-> Text(0, 5)]>>, 2, 500)

\* No HTTP request: stream_chat is called directly.
NoRequest == [absent |-> "request"]
\* No call of stream_chat has been prepared.
NoArgs == [absent |-> "args"]

\* Message lists at and around each limit of the schema.
UserMsg(content) == [role |-> "user", content |-> content]
MessageLists ==
    {<<>>,
     <<UserMsg(Text(0, 5))>>,
     <<[role |-> "system", content |-> Text(0, 4)], UserMsg(Text(2, 5))>>,
     <<[role |-> "system", content |-> Text(0, 4)]>>,
     <<[role |-> "tool", content |-> Text(0, 4)], UserMsg(Text(0, 5))>>,
     <<UserMsg(Text(0, 0))>>,
     <<UserMsg(Text(2, 0))>>,
     <<UserMsg(Text(0, 32000))>>,
     <<UserMsg(Text(0, 32001))>>,
     <<UserMsg(Text(1, 32000))>>,
     [i \in 1..50 |-> UserMsg(Text(0, 1))],
     [i \in 1..51 |-> UserMsg(Text(0, 1))]}

\* Requests that vary the list with the default parameters, and each
\* parameter at and around its limits with a one-message list.
Requests ==
    {Req(m, 2, 500) : m \in MessageLists}
    \cup {Req(<<UserMsg(Text(0, 5))>>, t, 500) : t \in {-1, 0, 10, 11}}
    \cup {Req(<<UserMsg(Text(0, 5))>>, 2, k) : k \in {0, 1, 4096, 4097}}

\* The upstream streams the request specification is run over.
ReqStreams ==
    {<<>>, <<DeltaA, DeltaB>>, <<DeltaB, DeltaA, MessageStop>>,
     <<DeltaA, MessageStop, DeltaB>>}

\* ---------------------------------------------------------------- frontend

\* Longest body of lines the frontend is given.
MaxLines == 4

\* The lines response.iter_lines() yields for a body of SSE events: the line
\* of an event is its "data: " prefix and the JSON after it, and a blank line
\* follows it.
DataLine(body) == <<"data: ", body>>
BlankLine == <<>>
\* A text after the prefix that json.loads cannot parse.
Malformed == [malformed |-> TRUE]

\* line.startswith("data: ") (streamlit_app.py 157).
StartsWithData(line) == Len(line) > 0 /\ line[1] = "data: "

LineSet ==
    {DataLine(SSETokenEvent("a")), DataLine(SSETokenEvent("b")),
     DataLine(SSEHeartbeatEvent(0)), DataLine(SSEDoneEvent),
     DataLine(SSEErrorEvent("AI service error: boom", "BEDROCK_STREAMING_ERROR")),
     DataLine(Malformed), BlankLine}

\* No frontend call is part of the specification.
NoUI == [absent |-> "ui"]

\* The locals of stream_chat_response at the start of its loop over the
\* lines (streamlit_app.py 113-118, 143), the stop flag of the session state
\* being what an earlier call left.
UIStart(lines, stop_generation) ==
    [lines |-> lines, pos |-> 0, accumulated_text |-> "",
     stop_generation |-> stop_generation, stopped |-> FALSE,
     errors |-> 0, returned |-> "pending", value |-> ""]

\* The end of the function once the loop is left by a break or at the end
\* of the body (streamlit_app.py 190-199).
UIReturn(u) ==
    [u EXCEPT !.returned = IF u.accumulated_text # "" THEN "text" ELSE "none",
              !.value = u.accumulated_text]

\* The branch on a line that starts with "data: " (streamlit_app.py 157-186).
UIHandleData(u, body) ==
    IF "malformed" \in DOMAIN body THEN u
    ELSE IF "type" \notin DOMAIN body THEN u
    ELSE IF body.type = "token"
         THEN [u EXCEPT !.accumulated_text = u.accumulated_text \o body.text]
    ELSE IF body.type = "done" THEN UIReturn(u)
    ELSE IF body.type = "error"
         THEN [u EXCEPT !.errors = u.errors + 1, !.returned = "none"]
    ELSE u

\* ----------------------------------------------------------------- state

VARIABLES
    frames,          \* the raw events the upstream stream holds, in order
    pos,             \* how many of them the decoder has read
    streamOpen,      \* the upstream stream handle is held open
    pc,              \* where the session is
    out,             \* the SSE frames yielded to the HTTP layer, in order
    now,             \* the wall clock, in seconds
    last_heartbeat,  \* main.py 133, 167
    current_time,    \* main.py 163
    token_count,     \* main.py 145, 160
    total_tokens,    \* bedrock_client.py 182, 198
    text_chunk,      \* the text stream_chat yielded last
    clientGone,      \* how the client left: "no", "polled", "cancelled", "abandoned"
    outAtGone,       \* Len(out) when the session learnt the client left
    fault,           \* the exception the environment raised, NoFault if none
    arrivals,        \* the clock at each text the decoder yielded
    checked,         \* the clock at each heartbeat check (main.py 163)
    slow,            \* how many waits of the session took time
    args,            \* the arguments stream_chat is called with
    payload,         \* the body of the upstream request, NoPayload if none
    clientCreations, \* calls of _get_bedrock_client
    upstreamCalls,   \* calls of invoke_model_with_response_stream
    request,         \* the body of the POST /chat, NoRequest if there is none
    ui,              \* the locals of the frontend's stream_chat_response
    other,           \* the relay session that is not running, if there are two
    started          \* the clock when the generator started (main.py 133)

vars == <<frames, pos, streamOpen, pc, out, now, last_heartbeat, current_time,
          token_count, total_tokens, text_chunk, clientGone, outAtGone, fault,
          arrivals, checked, slow, args, payload, clientCreations, upstreamCalls,
          request, ui, other, started>>

NoFault == Exc("", "")

\* There is one relay session only.
NoOther == [absent |-> "other"]

\* Nothing has been read or yielded, and the clock stands at 0.
Fresh ==
    /\ pos = 0
    /\ started = 0
    /\ streamOpen = FALSE
    /\ out = <<>>
    /\ now = 0
    /\ last_heartbeat = 0
    /\ current_time = 0
    /\ token_count = 0
    /\ total_tokens = 0
    /\ text_chunk = ""
    /\ clientGone = "no"
    /\ outAtGone = 0
    /\ fault = NoFault
    /\ arrivals = <<>>
    /\ checked = <<>>
    /\ slow = 0
    /\ payload = NoPayload
    /\ clientCreations = 0
    /\ upstreamCalls = 0

\* A request has been accepted and its generator is about to start.
Init ==
    /\ frames \in SeqsUpTo(FrameSet, MaxFrames)
    /\ request = DefaultRequest
    /\ args = ArgsOf(DefaultRequest)
    /\ pc = "idle"
    /\ ui = NoUI
    /\ other = NoOther
    /\ Fresh

\* --------------------------------------------------------------- actions

\* The clock moves on by g while the session waits; the waits that take time
\* are counted.
Wait(g) ==
    /\ g = 0 \/ slow < MaxSlow
    /\ now' = now + g
    /\ slow' = IF g = 0 THEN slow ELSE slow + 1

\* The completion event after the loop (main.py 172-174).
DoneFrames == <<format_sse_event(SSEDoneEvent)>>

\* C6 mutant: the token event is yielded a second time.
MutTokenFramesTwice(chunk) ==
    IF chunk # ""
    THEN <<format_sse_event(SSETokenEvent(chunk)), format_sse_event(SSETokenEvent(chunk))>>
    ELSE <<>>

\* `if text_chunk:` and the token event (main.py 157-159).
TokenFrames(chunk) ==
    IF chunk # "" THEN <<format_sse_event(SSETokenEvent(chunk))>> ELSE <<>>

\* The generator starts (main.py 132-145) and the first next() of stream_chat
\* runs up to the loop over the stream (bedrock_client.py 149-182): the
\* message list is not empty, the client is created, the formatted list is
\* not empty, the payload is built and sent, and the response has a body.
OpenStream ==
    /\ pc = "idle"
    /\ args.messages # <<>>
    /\ format_messages_for_anthropic(args.messages) # <<>>
    /\ \E g \in ShortGaps : Wait(g)
    /\ last_heartbeat' = now
    /\ started' = now
    /\ token_count' = 0
    /\ total_tokens' = 0
    /\ clientCreations' = clientCreations + 1
    /\ payload' = create_bedrock_payload(format_messages_for_anthropic(args.messages),
                                          args.temperature, args.max_tokens)
    /\ upstreamCalls' = upstreamCalls + 1
    /\ streamOpen' = TRUE
    /\ pc' = "decode"
    /\ UNCHANGED <<frames, pos, out, current_time, text_chunk, clientGone,
                   outAtGone, fault, arrivals, checked, args, request, ui, other>>

\* The same first next(), failing: in _get_bedrock_client, in
\* invoke_model_with_response_stream, or for want of a response body.  The
\* exception passes the outer handlers of stream_chat and is turned into an
\* error frame by the generator.  The client is created before the messages
\* are formatted; the upstream call comes after.
OpenFails ==
    /\ pc = "idle"
    /\ args.messages # <<>>
    /\ \E e \in {GetBedrockClientError(c) : c \in ClientCauses}
                \cup InvokeFaults \cup {NoStreamError} :
          /\ fault' = e
          /\ out' = out \o HandleException(OuterExcept(e))
          /\ IF e.cls = "BedrockClientError"
             THEN /\ UNCHANGED <<payload, upstreamCalls>>
             ELSE /\ format_messages_for_anthropic(args.messages) # <<>>
                  /\ payload' = create_bedrock_payload(
                                    format_messages_for_anthropic(args.messages),
                                    args.temperature, args.max_tokens)
                  /\ upstreamCalls' = upstreamCalls + 1
    /\ clientCreations' = clientCreations + 1
    /\ last_heartbeat' = now
    /\ started' = now
    /\ pc' = "done"
    /\ UNCHANGED <<frames, pos, streamOpen, now, current_time, token_count,
                   total_tokens, text_chunk, clientGone, outAtGone, arrivals, checked,
                   slow, args, request, ui, other>>

\* stream_chat is handed an empty list: `if not messages: return`
\* (bedrock_client.py 149-151).  Nothing is raised, the relay loop has
\* nothing to iterate and the completion event follows (main.py 172-174).
OpenEmpty ==
    /\ pc = "idle"
    /\ args.messages = <<>>
    /\ last_heartbeat' = now
    /\ started' = now
    /\ out' = out \o DoneFrames
    /\ pc' = "done"
    /\ UNCHANGED <<frames, pos, streamOpen, now, current_time, token_count,
                   total_tokens, text_chunk, clientGone, outAtGone, fault, arrivals,
                   checked, slow, args, payload, clientCreations, upstreamCalls, request, ui, other>>

\* No message is left after the formatting (bedrock_client.py 157-163): the
\* client has been created, BedrockStreamingError is raised inside the try,
\* caught by `except Exception` and raised again.
NoValidMessages == Exc("BedrockStreamingError", "No valid messages provided")

OpenNoValid ==
    /\ pc = "idle"
    /\ args.messages # <<>>
    /\ format_messages_for_anthropic(args.messages) = <<>>
    /\ clientCreations' = clientCreations + 1
    /\ last_heartbeat' = now
    /\ started' = now
    /\ out' = out \o HandleException(OuterExcept(NoValidMessages))
    /\ pc' = "done"
    /\ UNCHANGED <<frames, pos, streamOpen, now, current_time, token_count,
                   total_tokens, text_chunk, clientGone, outAtGone, fault, arrivals,
                   checked, slow, args, payload, upstreamCalls, request, ui, other>>

\* stream_chat reads the next raw event and handles it (bedrock_client.py
\* 184-216).  A text is yielded to the relay loop; a break ends stream_chat,
\* which ends the relay loop, and the completion event follows at once.
ReadFrame ==
    /\ pc = "decode"
    /\ pos < Len(frames)
    /\ pos' = pos + 1
    /\ \E g \in Gaps : Wait(g)
    /\ LET r == DecodeEvent(frames[pos + 1]) IN
          CASE r.act = "yield" ->
                  /\ total_tokens' = total_tokens + WordCount(r.text)
                  /\ text_chunk' = r.text
                  /\ arrivals' = Append(arrivals, now')
                  /\ pc' = "poll"
                  /\ out' = out
            [] r.act = "break" ->
                  /\ out' = out \o DoneFrames
                  /\ pc' = "done"
                  /\ UNCHANGED <<total_tokens, text_chunk, arrivals>>
            [] OTHER ->
                  /\ pc' = "decode"
                  /\ UNCHANGED <<total_tokens, text_chunk, arrivals, out>>
    /\ UNCHANGED <<frames, streamOpen, last_heartbeat, current_time, token_count,
                   clientGone, outAtGone, fault, checked,
                   args, payload, clientCreations, upstreamCalls, request, ui, other, started>>

\* C25 mutant: a stream that ends without a message_stop is reported as a
\* failure.
MutStreamExhaustedIsError ==
    /\ pc = "decode"
    /\ pos = Len(frames)
    /\ streamOpen' = FALSE
    /\ out' = out \o HandleException(
                        Exc("BedrockStreamingError", "Stream ended without message_stop"))
    /\ pc' = "done"
    /\ UNCHANGED <<frames, pos, now, last_heartbeat, current_time,
                   token_count, total_tokens, text_chunk, clientGone, outAtGone,
                   fault, arrivals, checked, slow,
                   args, payload, clientCreations, upstreamCalls, request, ui, other, started>>

\* The upstream stream ends without a message_stop: the for loop of
\* stream_chat is exhausted, so is the relay loop (main.py 146, 172-174).
\* Only here has the response body been read to its end, which is when the
\* transport takes the connection back; no line of the code closes it.
StreamExhausted ==
    /\ pc = "decode"
    /\ pos = Len(frames)
    /\ streamOpen' = FALSE
    /\ out' = out \o DoneFrames
    /\ pc' = "done"
    /\ UNCHANGED <<frames, pos, now, last_heartbeat, current_time,
                   token_count, total_tokens, text_chunk, clientGone, outAtGone,
                   fault, arrivals, checked, slow,
                   args, payload, clientCreations, upstreamCalls, request, ui, other, started>>

\* C22 mutant: after a failure of the stream the session starts over and
\* sends the request again.
MutStreamRaisesRetries ==
    /\ pc = "decode"
    /\ \E e \in StreamFaults : fault' = e
    /\ pc' = "idle"
    /\ UNCHANGED <<frames, pos, streamOpen, out, now, last_heartbeat, current_time,
                   token_count, total_tokens, text_chunk, clientGone, outAtGone,
                   arrivals, checked, slow,
                   args, payload, clientCreations, upstreamCalls, request, ui, other, started>>

\* The iteration of the event stream raises (bedrock_client.py 184, outside
\* the inner try): the outer handlers and then the generator's handlers run.
StreamRaises ==
    /\ pc = "decode"
    /\ \E e \in StreamFaults :
          /\ fault' = e
          /\ out' = out \o HandleException(OuterExcept(e))
    /\ pc' = "done"
    /\ UNCHANGED <<frames, pos, streamOpen, now, last_heartbeat, current_time,
                   token_count, total_tokens, text_chunk, clientGone, outAtGone,
                   arrivals, checked, slow,
                   args, payload, clientCreations, upstreamCalls, request, ui, other, started>>

\* await http_request.is_disconnected() returns (main.py 152-159).  True:
\* break, and the statement after the loop yields the completion event.
\* False: the token event is yielded.
Poll ==
    /\ pc = "poll"
    /\ \E disconnected \in BOOLEAN :
          IF disconnected
          THEN /\ clientGone' = "polled"
               /\ outAtGone' = Len(out)
               /\ out' = out \o DoneFrames
               /\ pc' = "done"
          ELSE /\ out' = out \o TokenFrames(text_chunk)
               /\ pc' = IF text_chunk # "" THEN "token_yielded" ELSE "sleep"
               /\ UNCHANGED <<clientGone, outAtGone>>
    /\ UNCHANGED <<frames, pos, streamOpen, now, last_heartbeat, current_time,
                   token_count, total_tokens, text_chunk, fault, arrivals, checked, slow,
                   args, payload, clientCreations, upstreamCalls, request, ui, other, started>>

\* The generator is resumed after the token (main.py 160-166), which is when
\* the HTTP layer asks for the next frame: the client may have been slow to
\* take the token, and the clock is read only now.
AfterToken ==
    /\ pc = "token_yielded"
    /\ token_count' = token_count + 1
    /\ \E g \in ShortGaps : Wait(g)
    /\ current_time' = now'
    /\ checked' = Append(checked, now')
    /\ IF HeartbeatDue(now', last_heartbeat)
       THEN /\ out' = Append(out, format_sse_event(SSEHeartbeatEvent(now')))
            /\ pc' = "heartbeat_yielded"
       ELSE /\ out' = out
            /\ pc' = "sleep"
    /\ UNCHANGED <<frames, pos, streamOpen, last_heartbeat, total_tokens,
                   text_chunk, clientGone, outAtGone, fault, arrivals,
                   args, payload, clientCreations, upstreamCalls, request, ui, other, started>>

\* C23 mutant: the timer is not set when the generator is resumed after the
\* heartbeat.
MutAfterHeartbeatNoReset ==
    /\ pc = "heartbeat_yielded"
    /\ pc' = "sleep"
    /\ UNCHANGED <<frames, pos, streamOpen, out, now, last_heartbeat, current_time,
                   token_count, total_tokens, text_chunk, clientGone, outAtGone,
                   fault, arrivals, checked, slow,
                   args, payload, clientCreations, upstreamCalls, request, ui, other, started>>

\* The generator is resumed after the heartbeat (main.py 167).
AfterHeartbeat ==
    /\ pc = "heartbeat_yielded"
    /\ last_heartbeat' = current_time
    /\ pc' = "sleep"
    /\ UNCHANGED <<frames, pos, streamOpen, out, now, current_time, token_count,
                   total_tokens, text_chunk, clientGone, outAtGone, fault, arrivals, checked, slow,
                   args, payload, clientCreations, upstreamCalls, request, ui, other, started>>

\* await asyncio.sleep(0.01) returns (main.py 170) and the loop asks
\* stream_chat for the next text.
Sleep ==
    /\ pc = "sleep"
    /\ pc' = "decode"
    /\ UNCHANGED <<frames, pos, streamOpen, out, now, last_heartbeat, current_time,
                   token_count, total_tokens, text_chunk, clientGone, outAtGone,
                   fault, arrivals, checked, slow,
                   args, payload, clientCreations, upstreamCalls, request, ui, other, started>>

\* C24 mutant: the cancellation also reaches the generator while stream_chat
\* waits for the next frame.
MutCancelledWhileBlocked ==
    /\ pc \in {"poll", "sleep", "decode"}
    /\ clientGone' = "cancelled"
    /\ outAtGone' = Len(out)
    /\ out' = out \o HandleException(Exc("CancelledError", ""))
    /\ pc' = "done"
    /\ UNCHANGED <<frames, pos, streamOpen, now, last_heartbeat, current_time,
                   token_count, total_tokens, text_chunk, fault, arrivals, checked, slow,
                   args, payload, clientCreations, upstreamCalls, request, ui, other, started>>

\* The task is cancelled while the generator awaits (main.py 152, 170):
\* asyncio.CancelledError is raised there and handled at main.py 202-204.
Cancelled ==
    /\ pc \in {"poll", "sleep"}
    /\ clientGone' = "cancelled"
    /\ outAtGone' = Len(out)
    /\ out' = out \o HandleException(Exc("CancelledError", ""))
    /\ pc' = "done"
    /\ UNCHANGED <<frames, pos, streamOpen, now, last_heartbeat, current_time,
                   token_count, total_tokens, text_chunk, fault, arrivals, checked, slow,
                   args, payload, clientCreations, upstreamCalls, request, ui, other, started>>

\* The HTTP layer stops iterating while the generator is suspended at a yield
\* (main.py 159, 166): the generator is closed there and runs no handler.
Abandoned ==
    /\ pc \in {"token_yielded", "heartbeat_yielded"}
    /\ clientGone' = "abandoned"
    /\ outAtGone' = Len(out)
    /\ pc' = "done"
    /\ UNCHANGED <<frames, pos, streamOpen, out, now, last_heartbeat, current_time,
                   token_count, total_tokens, text_chunk, fault, arrivals, checked, slow,
                   args, payload, clientCreations, upstreamCalls, request, ui, other, started>>

Next ==
    \/ OpenStream
    \/ OpenFails
    \/ ReadFrame
    \/ StreamExhausted
    \/ StreamRaises
    \/ Poll
    \/ AfterToken
    \/ AfterHeartbeat
    \/ Sleep
    \/ Cancelled
    \/ Abandoned

Spec == Init /\ [][Next]_vars

\* The base specification over streams that hold frames without text.
InitQuiet ==
    /\ frames \in SeqsUpTo(QuietFrameSet, MaxFrames)
    /\ request = DefaultRequest
    /\ args = ArgsOf(DefaultRequest)
    /\ pc = "idle"
    /\ ui = NoUI
    /\ other = NoOther
    /\ Fresh

SpecQuiet == InitQuiet /\ [][Next]_vars

\* stream_chat called with any arguments, the relay loop being its caller.
InitAdapter ==
    /\ frames \in {<<DeltaA>>, <<DeltaA, MessageStop>>}
    /\ args \in AdapterInputs
    /\ request = NoRequest
    /\ pc = "idle"
    /\ ui = NoUI
    /\ other = NoOther
    /\ Fresh

NextAdapter ==
    \/ Next
    \/ OpenEmpty
    \/ OpenNoValid

SpecAdapter == InitAdapter /\ [][NextAdapter]_vars

\* A POST /chat arrives: FastAPI builds the ChatRequest before it calls
\* chat_stream (main.py 115).
InitReq ==
    /\ frames \in ReqStreams
    /\ request \in Requests
    /\ args = NoArgs
    /\ pc = "received"
    /\ ui = NoUI
    /\ other = NoOther
    /\ Fresh

\* The request passes validation: chat_stream runs and returns the streaming
\* response whose generator holds the converted messages (main.py 136-139,
\* 215-216).
Accept ==
    /\ pc = "received"
    /\ ValidChatRequest(request)
    /\ args' = ArgsOf(request)
    /\ pc' = "idle"
    /\ UNCHANGED <<frames, pos, streamOpen, out, now, last_heartbeat, current_time,
                   token_count, total_tokens, text_chunk, clientGone, outAtGone,
                   fault, arrivals, checked, slow, payload, clientCreations,
                   upstreamCalls, request, ui, other, started>>

\* The request fails validation: the framework answers it and chat_stream is
\* never called.
Reject ==
    /\ pc = "received"
    /\ ~ValidChatRequest(request)
    /\ pc' = "rejected"
    /\ UNCHANGED <<frames, pos, streamOpen, out, now, last_heartbeat, current_time,
                   token_count, total_tokens, text_chunk, clientGone, outAtGone,
                   fault, arrivals, checked, slow, args, payload, clientCreations,
                   upstreamCalls, request, ui, other, started>>

NextReq ==
    \/ Accept
    \/ Reject
    \/ Next

SpecReq == InitReq /\ [][NextReq]_vars

\* ------------------------------------------------------------ two sessions

\* The upstream streams of two concurrent sessions: that of the session that
\* runs first and that of the other.
TwoStreams ==
    {<<<<DeltaA, DeltaB>>, <<DeltaB>>>>, <<<<DeltaA>>, <<DeltaB, MessageStop>>>>}

\* What belongs to the running session: the locals of generate_chat_stream
\* and of stream_chat, its request and its response (main.py 129-176,
\* bedrock_client.py 149-216), and what the model records of it.
Running ==
    [frames |-> frames,
     pos |-> pos,
     streamOpen |-> streamOpen,
     pc |-> pc,
     out |-> out,
     last_heartbeat |-> last_heartbeat,
     current_time |-> current_time,
     token_count |-> token_count,
     total_tokens |-> total_tokens,
     text_chunk |-> text_chunk,
     clientGone |-> clientGone,
     outAtGone |-> outAtGone,
     fault |-> fault,
     arrivals |-> arrivals,
     checked |-> checked,
     args |-> args,
     payload |-> payload,
     clientCreations |-> clientCreations,
     upstreamCalls |-> upstreamCalls,
     request |-> request,
     started |-> started]

\* A session whose generator has not run yet, over the given stream.
FreshSession(fs) ==
    [frames |-> fs, pos |-> 0, streamOpen |-> FALSE, pc |-> "idle", out |-> <<>>,
     last_heartbeat |-> 0, current_time |-> 0, token_count |-> 0,
     total_tokens |-> 0, text_chunk |-> "", clientGone |-> "no", outAtGone |-> 0,
     fault |-> NoFault, arrivals |-> <<>>, checked |-> <<>>,
     args |-> ArgsOf(DefaultRequest), payload |-> NoPayload, clientCreations |-> 0,
     upstreamCalls |-> 0, request |-> DefaultRequest, started |-> 0]

\* C18 mutant: last_heartbeat is one variable of the module that the
\* sessions share, so a session goes on with the value the other left.
MutResumedTimerShared(session) == last_heartbeat

\* The heartbeat timer a session goes on with: last_heartbeat is a local of
\* its own generator (main.py 133, 167).
ResumedTimer(session) == session.last_heartbeat

\* Two requests are being served by the one event loop.
InitTwo ==
    /\ \E pair \in TwoStreams :
          /\ frames = pair[1]
          /\ other = FreshSession(pair[2])
    /\ request = DefaultRequest
    /\ args = ArgsOf(DefaultRequest)
    /\ pc = "idle"
    /\ ui = NoUI
    /\ Fresh

\* The event loop leaves the running session where it is suspended, at a
\* yield or an await or before its generator has started, and goes on with
\* the other.  It cannot while stream_chat runs: that call is synchronous
\* (main.py 146).  The clock is the one thing the two have in common.
Switch ==
    /\ "absent" \notin DOMAIN other
    /\ pc # "decode"
    /\ other' = Running
    /\ last_heartbeat' = ResumedTimer(other)
    /\ frames' = other.frames
    /\ pos' = other.pos
    /\ streamOpen' = other.streamOpen
    /\ pc' = other.pc
    /\ out' = other.out
    /\ current_time' = other.current_time
    /\ token_count' = other.token_count
    /\ total_tokens' = other.total_tokens
    /\ text_chunk' = other.text_chunk
    /\ clientGone' = other.clientGone
    /\ outAtGone' = other.outAtGone
    /\ fault' = other.fault
    /\ arrivals' = other.arrivals
    /\ checked' = other.checked
    /\ args' = other.args
    /\ payload' = other.payload
    /\ clientCreations' = other.clientCreations
    /\ upstreamCalls' = other.upstreamCalls
    /\ request' = other.request
    /\ started' = other.started
    /\ UNCHANGED <<now, slow, ui>>

NextTwo ==
    \/ Next
    \/ Switch

SpecTwo == InitTwo /\ [][NextTwo]_vars

\* --------------------------------------------------------- frontend steps

\* stream_chat_response is called and the backend answers 200 with a body of
\* lines; no relay session is part of this specification.
InitUI ==
    /\ ui \in {UIStart(l, s) : l \in SeqsUpTo(LineSet, MaxLines), s \in BOOLEAN}
    /\ frames = <<>>
    /\ request = NoRequest
    /\ args = NoArgs
    /\ pc = "absent"
    /\ other = NoOther
    /\ Fresh

\* One turn of the loop over the lines (streamlit_app.py 143-186): the stop
\* flag is looked at, then the stop button, then the line.
UILine ==
    /\ ui.returned = "pending"
    /\ ui.pos < Len(ui.lines)
    /\ LET u == [ui EXCEPT !.pos = ui.pos + 1]
           line == ui.lines[ui.pos + 1]
       IN  IF ui.stop_generation
           THEN ui' = UIReturn([u EXCEPT !.stop_generation = FALSE, !.stopped = TRUE])
           ELSE \E pressed \in BOOLEAN :
                  IF pressed
                  THEN ui' = UIReturn([u EXCEPT !.stop_generation = TRUE,
                                                !.stopped = TRUE])
                  ELSE IF StartsWithData(line)
                       THEN ui' = UIHandleData(u, line[2])
                       ELSE ui' = u
    /\ UNCHANGED <<frames, pos, streamOpen, pc, out, now, last_heartbeat, current_time,
                   token_count, total_tokens, text_chunk, clientGone, outAtGone,
                   fault, arrivals, checked, slow, args, payload, clientCreations,
                   upstreamCalls, request, other, started>>

\* The body ends and the loop with it (streamlit_app.py 143, 190-199).
UIBodyEnds ==
    /\ ui.returned = "pending"
    /\ ui.pos = Len(ui.lines)
    /\ ui' = UIReturn(ui)
    /\ UNCHANGED <<frames, pos, streamOpen, pc, out, now, last_heartbeat, current_time,
                   token_count, total_tokens, text_chunk, clientGone, outAtGone,
                   fault, arrivals, checked, slow, args, payload, clientCreations,
                   upstreamCalls, request, other, started>>

NextUI ==
    \/ UILine
    \/ UIBodyEnds

SpecUI == InitUI /\ [][NextUI]_vars

\* The same, with the event loop and the upstream stream going on: a step
\* that can be taken is taken in the end.
SpecReqFair == SpecReq /\ WF_vars(NextReq)

\* ------------------------------------------- reading the outbound sequence

\* The events of the frames o, in order.
Events(o) == [i \in 1..Len(o) |-> EventOf(o[i])]

\* The positions of o that hold an event of type t.
Positions(o, t) == {i \in 1..Len(o) : EventOf(o[i]).type = t}

Count(o, t) == Cardinality(Positions(o, t))

\* The position in o of the n-th token event (0 if there is none).
TokenPos(o, n) ==
    IF \E i \in Positions(o, "token") :
          Cardinality({j \in Positions(o, "token") : j <= i}) = n
    THEN CHOOSE i \in Positions(o, "token") :
          Cardinality({j \in Positions(o, "token") : j <= i}) = n
    ELSE 0

\* The texts of the token events of o, in emission order.
TokenTexts(o) == [n \in 1..Count(o, "token") |-> EventOf(o[TokenPos(o, n)]).text]

IsPrefix(s, t) == Len(s) <= Len(t) /\ \A i \in 1..Len(s) : s[i] = t[i]

\* ------------------------------------------- reading the upstream sequence

IsTextDelta(f) == f.kind = "text_delta" /\ f.text # ""

\* The index of the first stream-stop frame of fs, Len(fs) + 1 if none.
FirstStop(fs) ==
    IF \E i \in 1..Len(fs) : fs[i].kind = "message_stop"
    THEN CHOOSE i \in 1..Len(fs) :
            /\ fs[i].kind = "message_stop"
            /\ \A j \in 1..(i - 1) : fs[j].kind # "message_stop"
    ELSE Len(fs) + 1

\* The texts of the content deltas among the first n frames of fs, in order.
RECURSIVE DeltaTexts(_, _)
DeltaTexts(fs, n) ==
    IF n = 0 THEN <<>>
    ELSE IF IsTextDelta(fs[n])
         THEN Append(DeltaTexts(fs, n - 1), fs[n].text)
         ELSE DeltaTexts(fs, n - 1)

\* The text deltas the stream carries up to its stop frame or its end.
StreamDeltas(fs) == DeltaTexts(fs, FirstStop(fs) - 1)

\* The client stayed connected and the environment raised nothing.
Undisturbed == clientGone = "no" /\ fault = NoFault

\* fs is N content deltas followed by a stream stop (and anything after it).
DeltasThenStop(fs) ==
    /\ FirstStop(fs) <= Len(fs)
    /\ \A i \in 1..(FirstStop(fs) - 1) : IsTextDelta(fs[i])

\* An in-band error frame is delivered before any stream stop.
FirstError(fs) ==
    IF \E i \in 1..Len(fs) : fs[i].kind = "error"
    THEN CHOOSE i \in 1..Len(fs) :
            /\ fs[i].kind = "error"
            /\ \A j \in 1..(i - 1) : fs[j].kind # "error"
    ELSE Len(fs) + 1

ErrorDelivered(fs) == FirstError(fs) < FirstStop(fs)

\* ---------------------------------------------------------------- claims

\* C1: when the upstream delivers N content deltas and then a stream stop,
\* the client stays connected and nothing fails, the finished session has
\* emitted exactly N Token events carrying those deltas, then exactly one
\* Done, which is the last event, and no Error.
C1_TokensThenDone ==
    (pc = "done" /\ Undisturbed /\ DeltasThenStop(frames)) =>
        /\ Count(out, "token") = FirstStop(frames) - 1
        /\ TokenTexts(out) = DeltaTexts(frames, FirstStop(frames) - 1)
        /\ Count(out, "done") = 1
        /\ Count(out, "error") = 0
        /\ EventOf(out[Len(out)]).type = "done"

C1_Witness ==
    /\ pc = "done"
    /\ Undisturbed
    /\ DeltasThenStop(frames)
    /\ FirstStop(frames) = 3
    /\ Count(out, "token") = 2
    /\ EventOf(out[Len(out)]).type = "done"

\* C2 (as claimed): when an in-band error frame is delivered after k content
\* deltas, the finished session has emitted the k Tokens, exactly one Error,
\* no Done, and no Token for a frame after the error frame.
C2_ErrorFrameYieldsError ==
    (pc = "done" /\ Undisturbed /\ ErrorDelivered(frames)) =>
        /\ TokenTexts(out) = DeltaTexts(frames, FirstError(frames) - 1)
        /\ Count(out, "error") = 1
        /\ Count(out, "done") = 0

\* C3 (as claimed): once is_disconnected() has returned true in the per-delta
\* check, the session emits no further event.
C3_SilentAfterDisconnect ==
    clientGone = "polled" => Len(out) = outAtGone

\* C4 (as claimed): a session that has ended holds no open upstream stream.
C4_StreamReleasedAtExit ==
    pc = "done" => ~streamOpen

\* C5 (as claimed): the outbound sequence holds at most one terminal event,
\* and none at all when the session ended by cancellation.
C5_AtMostOneTerminal ==
    /\ Count(out, "done") + Count(out, "error") <= 1
    /\ clientGone # "no" => Count(out, "done") + Count(out, "error") = 0

\* C6: the texts of the emitted Tokens, in emission order, are a prefix of the
\* text deltas of the upstream stream in stream order: none is reordered,
\* duplicated, merged or skipped.
C6_TokensPrefixOfDeltas ==
    IsPrefix(TokenTexts(out), StreamDeltas(frames))

C6_Witness ==
    /\ Count(out, "token") = 2
    /\ TokenTexts(out) = <<"b", "a">>

\* C7: a session that ended by cancellation, seen by the poll, raised as
\* CancelledError or by the closing of the generator, holds no Error event
\* at or after the point of cancellation.
C7_NoErrorAfterCancel ==
    clientGone # "no" =>
        \A i \in Positions(out, "error") : i <= outAtGone

C7_Witness ==
    /\ clientGone = "cancelled"
    /\ pc = "done"
    /\ Count(out, "token") >= 1

\* C8 (as claimed): any failure raised while opening or consuming the
\* upstream stream, the in-band error of the decoder included, makes the
\* session emit exactly one Error with a message and a code and no Done.
C8_FailureYieldsOneError ==
    (pc = "done" /\ clientGone = "no"
        /\ (fault # NoFault \/ ErrorDelivered(frames))) =>
        /\ Count(out, "error") = 1
        /\ Count(out, "done") = 0
        /\ \A i \in Positions(out, "error") :
              EventOf(out[i]).message # "" /\ EventOf(out[i]).code # ""

\* C9: a frame that is not JSON produces no event and does not end the
\* decoding: in an undisturbed session every content delta up to the stream
\* stop or end, those after the bad frame included, has its Token, in order,
\* and the only other events are heartbeats and the one terminal event.
C9_UnparseableSkipped ==
    (pc = "done" /\ Undisturbed
        /\ \E i \in 1..(FirstStop(frames) - 1) : frames[i].kind = "unparseable") =>
        /\ TokenTexts(out) = StreamDeltas(frames)
        /\ Len(out) = Len(StreamDeltas(frames)) + Count(out, "heartbeat") + 1

C9_Witness ==
    /\ pc = "done"
    /\ Undisturbed
    /\ Len(frames) = 3
    /\ frames[1].kind = "unparseable"
    /\ IsTextDelta(frames[2])
    /\ IsTextDelta(frames[3])
    /\ Count(out, "token") = 2

\* The timestamp of the last heartbeat before position p of o, and the
\* start of the session (clock 0) if there is none.
LastBeatBefore(o, p) ==
    LET H == {i \in Positions(o, "heartbeat") : i < p} IN
        IF H = {} THEN 0
        ELSE EventOf(o[CHOOSE i \in H : \A j \in H : j <= i]).timestamp

\* The n-th and the (n+1)-th emitted deltas arrived more than the heartbeat
\* interval apart.
SlowPair(n) ==
    /\ n + 1 <= Count(out, "token")
    /\ arrivals[n + 1] - arrivals[n] > heartbeat_interval

C11_NoHeartbeatWhenUpstreamFast ==
    (pc = "done" /\ Undisturbed /\ \A n \in 1..Len(arrivals) : arrivals[n] <= 1) =>
        Count(out, "heartbeat") = 0

\* C11 (amended): as long as every delta has arrived, and its Token has been
\* taken by the client so that the generator was resumed, within 1 second of
\* the session start (the start of the generator, before the upstream stream
\* is opened), the session has emitted no Heartbeat, however many deltas.
C11_NoHeartbeatWhenAllFast ==
    (/\ \A n \in 1..Len(arrivals) : arrivals[n] <= 1
     /\ \A n \in 1..Len(checked) : checked[n] <= 1) =>
        Count(out, "heartbeat") = 0

C11_Witness ==
    /\ pc = "done"
    /\ Undisturbed
    /\ Count(out, "token") = MaxFrames
    /\ Len(checked) = MaxFrames
    /\ \A n \in 1..Len(checked) : checked[n] <= 1
    /\ Count(out, "heartbeat") = 0

\* ---------------------------------------------------------------- C13

\* The events of kind error that carry the given code.
ErrorCodes ==
    {Events(out)[i].code : i \in {j \in 1..Len(out) : Events(out)[j].type = "error"}}

\* A value clamped to the range lo..hi, written out by cases.
Clamped(v, lo, hi) == IF v < lo THEN lo ELSE IF v > hi THEN hi ELSE v

\* C13: the adapter never rejects a parameter that is out of range, it clamps
\* it in the payload it sends upstream: the payload carries the temperature
\* clamped to [0, 1] (0..10 tenths) and max_tokens clamped to [1, 4096]; -0.5
\* goes to 0.0, 1.7 to 1.0, 0 to 1 and 10000 to 4096.  With messages that
\* survive the formatting the call can always go on to the upstream request,
\* whatever the parameters, and no validation error is ever emitted.
C13_ClampedNeverRejected ==
    /\ payload # NoPayload =>
         LET p == json_loads(payload) IN
            /\ p.temperature = Clamped(args.temperature, 0, 10)
            /\ p.max_tokens = Clamped(args.max_tokens, 1, 4096)
            /\ args.temperature = -5 => p.temperature = 0
            /\ args.temperature = 17 => p.temperature = 10
            /\ args.max_tokens = 0 => p.max_tokens = 1
            /\ args.max_tokens = 10000 => p.max_tokens = 4096
    /\ (pc = "idle" /\ format_messages_for_anthropic(args.messages) # <<>>)
         => ENABLED OpenStream
    /\ "VALIDATION_ERROR" \notin ErrorCodes

\* Out-of-range parameters have gone upstream and tokens have come back.
C13_Witness ==
    /\ payload # NoPayload
    /\ args.temperature = 17
    /\ args.max_tokens = 0
    /\ Count(out, "token") > 0

\* ---------------------------------------------------------------- C14

\* C14: when the message list handed to stream_chat is empty once the entries
\* that lack a role or a content are dropped, the list that is empty to begin
\* with included, the finished session has made no upstream call and has
\* emitted an Error and no Done.
C14_NoValidInputYieldsError ==
    (pc = "done" /\ format_messages_for_anthropic(args.messages) = <<>>)
        => /\ upstreamCalls = 0
           /\ Count(out, "error") = 1
           /\ Count(out, "done") = 0

\* ---------------------------------------------------------------- C15

\* The four kinds of failure of the upstream call (bedrock_client.py 221-234).
UpstreamKinds ==
    {Exc("ClientError", c) : c \in {"AccessDeniedException", "ThrottlingException",
                                     "ValidationException", "ServiceUnavailable"}}

\* The code of the Error event the client receives for an exception that
\* stream_chat meets.
ErrorCodeOf(e) == EventOf(HandleException(OuterExcept(e))[1]).code

\* C15: a session whose upstream call failed in one of the four kinds has
\* emitted one Error event, as its last event, and the code of that event is
\* the code of no other kind.
C15_DistinctCodePerKind ==
    (pc = "done" /\ fault \in UpstreamKinds /\ clientGone = "no")
        => /\ Count(out, "error") = 1
           /\ Count(out, "done") = 0
           /\ Events(out)[Len(out)].type = "error"
           /\ \A k \in UpstreamKinds \ {fault} :
                 ErrorCodeOf(k) # Events(out)[Len(out)].code

\* ---------------------------------------------------------------- C16

\* The failures of _get_bedrock_client.
ClientFailures == {GetBedrockClientError(c) : c \in ClientCauses}

\* C16: a session in which the creation of the backend client failed has
\* emitted exactly one event, an Error with the code BEDROCK_CLIENT_ERROR
\* and the one fixed message, which is the same for every cause and is not
\* the text of the exception; the client was created once and no upstream
\* call was made.
C16_ClientFailureOneGenericError ==
    (pc = "done" /\ fault \in ClientFailures)
        => /\ Len(out) = 1
           /\ Events(out)[1].type = "error"
           /\ Events(out)[1].code = "BEDROCK_CLIENT_ERROR"
           /\ Events(out)[1].message =
                "Failed to connect to AI service. Please check your AWS configuration."
           /\ \A f \in ClientFailures : Events(out)[1].message # f.msg
           /\ \A f \in ClientFailures :
                 HandleException(OuterExcept(f)) = out
           /\ clientCreations = 1
           /\ upstreamCalls = 0

\* The credentials were missing and the session has ended.
C16_Witness ==
    /\ pc = "done"
    /\ fault = GetBedrockClientError("NoCredentialsError")
    /\ Count(out, "error") = 1

\* ---------------------------------------------------------------- C20

\* The positions of the message list that hold an entry with both keys, and
\* the place such an entry takes among them.
WellFormed(messages) ==
    {i \in 1..Len(messages) :
        "role" \in DOMAIN messages[i] /\ "content" \in DOMAIN messages[i]}
Rank(messages, i) == Cardinality({j \in WellFormed(messages) : j <= i})

\* C20: the formatted list holds one message for each entry that has a role
\* and a content and none for the others, in the order of the entries; each
\* keeps its content, keeps its role if that is user, assistant or system
\* and has the role user otherwise; and this list is what is sent upstream.
C20_FormatDropsCoercesKeepsOrder ==
    LET formatted == format_messages_for_anthropic(args.messages) IN
        /\ Len(formatted) = Cardinality(WellFormed(args.messages))
        /\ \A i \in WellFormed(args.messages) :
              LET m == args.messages[i]
                  f == formatted[Rank(args.messages, i)]
              IN  /\ f.content = m.content
                  /\ m.role \in {"user", "assistant", "system"} => f.role = m.role
                  /\ m.role \notin {"user", "assistant", "system"} => f.role = "user"
        /\ payload # NoPayload => json_loads(payload).messages = formatted

\* A list whose first entry lacks its role and whose second has an unknown
\* role has been formatted and sent.
C20_Witness ==
    /\ payload # NoPayload
    /\ Len(args.messages) = 2
    /\ "role" \notin DOMAIN args.messages[1]
    /\ args.messages[2].role = "tool"
    /\ Len(json_loads(payload).messages) = 1
    /\ json_loads(payload).messages[1].role = "user"

\* ---------------------------------------------------------------- C12

\* The request breaks one of the documented limits.
OutOfLimits(r) ==
    \/ Len(r.messages) = 0
    \/ Len(r.messages) > 50
    \/ \E i \in 1..Len(r.messages) :
          StrLen(r.messages[i].content) = 0 \/ StrLen(r.messages[i].content) > 32000
    \/ r.temperature < 0 \/ r.temperature > 10
    \/ r.max_tokens < 1 \/ r.max_tokens > 4096

\* C12: a POST /chat whose message list is empty or longer than 50, or that
\* has a message with empty content or content longer than 32000 characters,
\* or whose temperature is outside [0, 1] or max_tokens outside [1, 4096], is
\* rejected before the relay is invoked: the generator is never started, no
\* client is created, no upstream stream is opened and no event is emitted.
C12_OutOfLimitsRejected ==
    OutOfLimits(request)
        => /\ pc \in {"received", "rejected"}
           /\ args = NoArgs
           /\ out = <<>>
           /\ ~streamOpen
           /\ payload = NoPayload
           /\ clientCreations = 0
           /\ upstreamCalls = 0

\* A request of 51 messages has been rejected.
C12_Witness ==
    /\ pc = "rejected"
    /\ Len(request.messages) = 51

\* ---------------------------------------------------------------- C17

\* The message list has 1 to 50 messages, each with a content of 1 to 32000
\* characters, and the parameters are in their ranges.
WithinCaps(r) ==
    /\ Len(r.messages) \in 1..50
    /\ \A i \in 1..Len(r.messages) : StrLen(r.messages[i].content) \in 1..32000
    /\ r.temperature \in 0..10
    /\ r.max_tokens \in 1..4096

\* Moreover every role is one the schema knows, one message is of role user,
\* and no content is whitespace only.
WellFormedRequest(r) ==
    /\ WithinCaps(r)
    /\ \A i \in 1..Len(r.messages) :
          /\ r.messages[i].role \in {"system", "user", "assistant"}
          /\ r.messages[i].content.core > 0
    /\ \E i \in 1..Len(r.messages) : r.messages[i].role = "user"

\* The session has ended with its Tokens in upstream order and exactly one
\* terminal event, which is its last event.
TokensThenOneTerminal ==
    /\ pc = "done"
    /\ IsPrefix(TokenTexts(out), StreamDeltas(frames))
    /\ fault = NoFault => TokenTexts(out) = StreamDeltas(frames)
    /\ Count(out, "done") + Count(out, "error") = 1
    /\ Events(out)[Len(out)].type \in {"done", "error"}

IsEventLine(line, t) ==
    /\ StartsWithData(line)
    /\ "type" \in DOMAIN line[2]
    /\ line[2].type = t

\* The place of the first done or error line (Len + 1 if there is none).
FirstTerminalLine(lines) ==
    IF \E i \in 1..Len(lines) : IsEventLine(lines[i], "done") \/ IsEventLine(lines[i], "error")
    THEN CHOOSE i \in 1..Len(lines) :
            /\ IsEventLine(lines[i], "done") \/ IsEventLine(lines[i], "error")
            /\ \A j \in 1..(i - 1) :
                  ~(IsEventLine(lines[j], "done") \/ IsEventLine(lines[j], "error"))
    ELSE Len(lines) + 1

\* The texts of the token lines among the first n lines, joined in order.
RECURSIVE TextBefore(_, _)
TextBefore(lines, n) ==
    IF n = 0 THEN ""
    ELSE IF IsEventLine(lines[n], "token")
         THEN TextBefore(lines, n - 1) \o lines[n][2].text
         ELSE TextBefore(lines, n - 1)

\* C19: when the frontend has returned and the user stopped nothing, its
\* buffer is the text of the token events before the first done or error, in
\* arrival order, heartbeats and other lines adding nothing; it consumed no
\* line after that first terminal event; on a done it returned the
\* accumulated text, on an error it reported a failure.
C19_FrontendHandlesEvents ==
    (ui.returned # "pending" /\ ~ui.stopped) =>
        LET t == FirstTerminalLine(ui.lines) IN
            /\ ui.accumulated_text = TextBefore(ui.lines, t - 1)
            /\ t <= Len(ui.lines) => ui.pos = t
            /\ (t <= Len(ui.lines) /\ IsEventLine(ui.lines[t], "done"))
                  => ui.returned = "text" /\ ui.value = ui.accumulated_text
            /\ (t <= Len(ui.lines) /\ IsEventLine(ui.lines[t], "error"))
                  => ui.returned = "none" /\ ui.errors = 1

\* ---------------------------------------------------------------- C18

\* The timestamp of the last heartbeat before position p of o, and the given
\* start of the session if there is none.
LastBeatSince(o, p, start) ==
    LET H == {i \in Positions(o, "heartbeat") : i < p} IN
        IF H = {} THEN start
        ELSE EventOf(o[CHOOSE i \in H : \A j \in H : j <= i]).timestamp

\* The session s stands alone: its events, its token count and its heartbeat
\* timer are what its own stream, its own start and its own readings of the
\* clock make them.  Its Tokens are the deltas of its stream, in order; it
\* has counted the Tokens it was resumed after; a Heartbeat follows its n-th
\* Token exactly when its n-th reading of the clock was due against its own
\* last Heartbeat or start; its timer is its start or the stamp of its last
\* Heartbeat it was resumed after; and it has one terminal event at most, at
\* the end.
StandsAlone(s) ==
    /\ IsPrefix(TokenTexts(s.out), StreamDeltas(s.frames))
    /\ s.token_count = Len(s.checked)
    /\ Len(s.checked) \in {Count(s.out, "token"), Count(s.out, "token") - 1}
    /\ \A n \in 1..Len(s.checked) :
          LET p == TokenPos(s.out, n) IN
              HeartbeatDue(s.checked[n], LastBeatSince(s.out, p, s.started))
                  <=> /\ p < Len(s.out)
                      /\ EventOf(s.out[p + 1]) = SSEHeartbeatEvent(s.checked[n])
    /\ Count(s.out, "heartbeat") <= Len(s.checked)
    /\ s.last_heartbeat =
          IF /\ s.out # <<>>
             /\ EventOf(s.out[Len(s.out)]).type = "heartbeat"
             /\ s.pc = "heartbeat_yielded" \/ s.clientGone = "abandoned"
          THEN LastBeatSince(s.out, Len(s.out), s.started)
          ELSE LastBeatSince(s.out, Len(s.out) + 1, s.started)
    /\ Count(s.out, "done") + Count(s.out, "error") <= 1
    /\ \A i \in Positions(s.out, "done") \cup Positions(s.out, "error") : i = Len(s.out)

\* C18: of two sessions served concurrently, under every interleaving each
\* stands alone: the one that runs and the one that is suspended.
C18_SessionsStandAlone ==
    "absent" \notin DOMAIN other => StandsAlone(Running) /\ StandsAlone(other)

\* Both sessions have ended, each with the Tokens of its own stream, the
\* suspended one with a Heartbeat and the running one with none.
C18_Witness ==
    /\ "absent" \notin DOMAIN other
    /\ pc = "done" /\ other.pc = "done"
    /\ frames # other.frames
    /\ TokenTexts(out) = StreamDeltas(frames)
    /\ TokenTexts(other.out) = StreamDeltas(other.frames)
    /\ Count(out, "token") > 0
    /\ Count(other.out, "heartbeat") = 1
    /\ Count(out, "heartbeat") = 0
    /\ Count(out, "done") = 1 /\ Count(other.out, "done") = 1

\* ---------------------------------------------------------------- C21

\* C21: the decoder reads no frame past the first message_stop: once that
\* frame is read the session is over, the Tokens are no more than the deltas
\* before it, and an Error is there only if the environment raised one, never
\* for an error frame after the stop.
C21_NothingReadAfterStop ==
    /\ pos <= FirstStop(frames)
    /\ (pos = FirstStop(frames) /\ pos <= Len(frames)) => pc = "done"
    /\ Count(out, "token") <= Len(StreamDeltas(frames))
    /\ IsPrefix(TokenTexts(out), DeltaTexts(frames, pos))
    /\ fault = NoFault => Count(out, "error") = 0

\* A delta lies after the stop; the session ended with the one Token of the
\* delta before it.
C21_Witness ==
    /\ pc = "done"
    /\ Undisturbed
    /\ frames = <<DeltaA, MessageStop, DeltaB>>
    /\ pos = 2
    /\ TokenTexts(out) = <<"a">>
    /\ Count(out, "done") = 1

\* ---------------------------------------------------------------- C22

\* C22: a session creates its client and calls the upstream streaming
\* operation once at most; after a failure, at the opening or in the middle
\* of the stream, it is over and can open nothing again.
C22_UpstreamCalledOnce ==
    /\ upstreamCalls <= 1
    /\ clientCreations <= 1
    /\ fault # NoFault =>
          /\ pc = "done"
          /\ ~ENABLED OpenStream
          /\ ~ENABLED OpenFails

\* The stream failed after a Token: the one call was not repeated.
C22_Witness ==
    /\ pc = "done"
    /\ fault \in StreamFaults
    /\ Count(out, "token") > 0
    /\ Count(out, "error") = 1
    /\ upstreamCalls = 1

\* ---------------------------------------------------------------- C23

\* C23: every Heartbeat comes right after a Token, at least 30 seconds after
\* the Heartbeat before it or the start of the session, so never two for one
\* delta; once the generator has been resumed after it the timer holds its
\* time; and Tokens are not given up for it: with the client connected each
\* text the decoder has yielded and the relay has taken up has its Token.
C23_HeartbeatsFollowTokens ==
    /\ \A h \in Positions(out, "heartbeat") :
          /\ h > 1
          /\ EventOf(out[h - 1]).type = "token"
          /\ EventOf(out[h]).timestamp - LastBeatSince(out, h, started)
                >= heartbeat_interval
    /\ pc \in {"sleep", "decode", "poll", "token_yielded"}
          => last_heartbeat = LastBeatSince(out, Len(out) + 1, started)
    /\ (clientGone = "no" /\ pc # "poll") => Count(out, "token") = Len(arrivals)

\* Two Heartbeats, each after its own Token, in a session that went on to
\* its end.
C23_Witness ==
    /\ pc = "done"
    /\ Undisturbed
    /\ Count(out, "heartbeat") = 2
    /\ Count(out, "token") >= 2
    /\ Count(out, "done") = 1

\* ---------------------------------------------------------------- C24

\* C24: while stream_chat waits for the upstream stream the session can do
\* nothing of its own: it has emitted no terminal event, and no step but the
\* arrival of a frame, the end of the stream or an error of the stream can
\* be taken: no heartbeat check, no poll of the connection, no cancellation,
\* no end of the session.  If the stream stalls for ever, so does the session.
C24_BlockedWhileUpstreamStalls ==
    pc = "decode" =>
        /\ Count(out, "done") + Count(out, "error") = 0
        /\ clientGone = "no"
        /\ ~ENABLED Poll
        /\ ~ENABLED AfterToken
        /\ ~ENABLED AfterHeartbeat
        /\ ~ENABLED Sleep
        /\ ~ENABLED Cancelled
        /\ ~ENABLED Abandoned
        /\ ~ENABLED OpenStream
        /\ ~ENABLED OpenFails

\* A Token has gone out, half a minute has passed, and the session waits for
\* a frame that has not come.
C24_Witness ==
    /\ pc = "decode"
    /\ pos < Len(frames)
    /\ Count(out, "token") = 1
    /\ Count(out, "heartbeat") = 0
    /\ now - started > heartbeat_interval

\* ---------------------------------------------------------------- C25

\* The events of o that are not heartbeats, in order.
RECURSIVE WithoutHeartbeats(_)
WithoutHeartbeats(o) ==
    IF o = <<>> THEN <<>>
    ELSE IF EventOf(o[1]).type = "heartbeat"
         THEN WithoutHeartbeats(Tail(o))
         ELSE <<EventOf(o[1])>> \o WithoutHeartbeats(Tail(o))

\* The Token events of the given texts, in order.
TokenEvents(texts) == [i \in 1..Len(texts) |-> SSETokenEvent(texts[i])]

\* The stream holds neither a stream-stop frame nor an error frame.
EndsUnsignalled(fs) ==
    \A i \in 1..Len(fs) : fs[i].kind \notin {"message_stop", "error"}

\* C25: when the upstream stream was read to its end, held neither a
\* message_stop nor an error frame, and the client stayed connected, the
\* session has emitted the Tokens of the deltas received and then one Done,
\* and no Error: heartbeats aside, the very events the same stream with a
\* message_stop at its end gives.
C25_ExhaustedStreamEndsWithDone ==
    (pc = "done" /\ Undisturbed /\ EndsUnsignalled(frames)) =>
        /\ pos = Len(frames)
        /\ Count(out, "done") = 1
        /\ Count(out, "error") = 0
        /\ WithoutHeartbeats(out)
              = TokenEvents(DeltaTexts(frames, Len(frames))) \o <<SSEDoneEvent>>
        /\ WithoutHeartbeats(out)
              = TokenEvents(StreamDeltas(Append(frames, MessageStop))) \o <<SSEDoneEvent>>

\* Two deltas and the end of the stream, without a stop frame.
C25_Witness ==
    /\ pc = "done"
    /\ Undisturbed
    /\ frames = <<DeltaA, DeltaB>>
    /\ TokenTexts(out) = <<"a", "b">>
    /\ EventOf(out[Len(out)]) = SSEDoneEvent

\* ---------------------------------------------------------------- C26

\* The frame carries no text to relay: it has no chunk, or is a content
\* delta that is not a text delta or has an empty text, or is of another type.
IsQuiet(f) ==
    \/ f.kind = "nochunk"
    \/ f.kind = "other_delta"
    \/ f.kind = "text_delta" /\ f.text = ""
    \/ f.kind = "other"

\* C26: a frame that carries no text gives no event and does not end the
\* stream: the events are, heartbeats aside, the Tokens of the deltas with a
\* text that were read, a session that ended undisturbed has read every frame
\* behind the quiet ones and ends with its Done, and having read a quiet
\* frame the decoder is reading on.  No Token has an empty text.
C26_QuietFramesGiveNothing ==
    /\ \A i \in Positions(out, "token") : EventOf(out[i]).text # ""
    /\ IsPrefix(TokenTexts(out), DeltaTexts(frames, pos))
    /\ (pos > 0 /\ IsQuiet(frames[pos]))
          => /\ pc \in {"decode", "done"}
             /\ TokenTexts(out) = DeltaTexts(frames, pos - 1)
             /\ pc = "done" => (pos = Len(frames) \/ fault # NoFault)
    /\ (pc = "done" /\ Undisturbed)
          => /\ pos = Len(frames)
             /\ WithoutHeartbeats(out)
                   = TokenEvents(DeltaTexts(frames, Len(frames))) \o <<SSEDoneEvent>>

\* Two quiet frames of different kinds, then a delta whose Token went out.
C26_Witness ==
    /\ pc = "done"
    /\ Undisturbed
    /\ Len(frames) = 3
    /\ IsQuiet(frames[1]) /\ IsQuiet(frames[2]) /\ frames[1] # frames[2]
    /\ frames[3] = DeltaA
    /\ WithoutHeartbeats(out) = <<SSETokenEvent("a"), SSEDoneEvent>>

\* ---------------------------------------------------------------- C27

\* The request has passed validation and chat_stream has been called for it.
ReachedRelay == pc \notin {"received", "rejected"}

\* C27: a request that reaches the relay has a message of role user, only
\* roles among system, user and assistant, and no content that is empty once
\* trimmed; the relay is handed, and sends upstream, the trimmed contents.  A
\* request without a user message or with a whitespace-only content never
\* reaches it: nothing is created, called or emitted for it.
C27_RelayGetsStricterRequests ==
    /\ ReachedRelay =>
          /\ \E i \in 1..Len(request.messages) : request.messages[i].role = "user"
          /\ Len(args.messages) = Len(request.messages)
          /\ \A i \in 1..Len(request.messages) :
                /\ request.messages[i].role \in {"system", "user", "assistant"}
                /\ request.messages[i].content.core > 0
                /\ args.messages[i].role = request.messages[i].role
                /\ args.messages[i].content = Text(0, request.messages[i].content.core)
          /\ payload # NoPayload =>
                \A i \in 1..Len(request.messages) :
                   json_loads(payload).messages[i].content
                      = Text(0, request.messages[i].content.core)
    /\ (\/ \A i \in 1..Len(request.messages) : request.messages[i].role # "user"
        \/ \E i \in 1..Len(request.messages) : request.messages[i].content.core = 0)
          => /\ ~ReachedRelay
             /\ out = <<>>
             /\ clientCreations = 0
             /\ upstreamCalls = 0

\* A request with a padded content was served: the content went upstream
\* trimmed.
C27_Witness ==
    /\ pc = "done"
    /\ Len(request.messages) = 2
    /\ request.messages[2].content = Text(2, 5)
    /\ payload # NoPayload
    /\ json_loads(payload).messages[2].content = Text(0, 5)
    /\ Count(out, "token") > 0

====
